---- MODULE Spec2Model ----
(***************************************************************************)
(* A model of the FFNN container of src/src/neural_network.py.             *)
(*                                                                         *)
(* A tensor is modelled by its shape (a sequence of dimension sizes) and   *)
(* by the way its elements were produced ("rand", "zeros", "data").        *)
(* Positions in lists are 1-based here: the Python list index i is the     *)
(* position i + 1.                                                         *)
(***************************************************************************)
EXTENDS Integers, Sequences, FiniteSets, TLC

VARIABLES
    state,                 \* "new" (constructor not run), "ready", "failed"
    args,                  \* the arguments of the constructor call
    attrs,                 \* the names of the attributes __init__ has created
    size,                  \* self.__size
    weights,               \* self.__weights
    biases,                \* self.__biases
    activation_functions,  \* self.__activation_functions
    function_parameters,   \* self.__function_parameters
    last,                  \* the last call on the instance and its outcome
    setter_calls           \* the number of setter calls made so far

vars == <<state, args, attrs, size, weights, biases, activation_functions,
          function_parameters, last, setter_calls>>

lists == <<weights, biases, activation_functions, function_parameters>>

----------------------------------------------------------------------------
\* Bounds of the model.

MaxSize == 2          \* layer widths range over 0 .. MaxSize
MaxHidden == 2        \* at most MaxHidden hidden layers (fresh networks)
MaxOut == 3           \* size_out ranges over 1 .. MaxOut
SetMaxHidden == 1     \* hidden layers of the networks the setters act on
MaxSetLen == 2        \* length of a list handed to a setter
MaxSetterCalls == 1   \* setter calls in one run

----------------------------------------------------------------------------
\* Values.

None == "None"
Scalar == "scalar"     \* a one-element tensor, read with .item()

Min(a, b) == IF a <= b THEN a ELSE b
Max(a, b) == IF a >= b THEN a ELSE b

Tensor(shape, fill) == [shape |-> shape, fill |-> fill, requires_grad |-> FALSE]

\* torch.rand(r, c)
Rand(r, c) == Tensor(<<r, c>>, "rand")

\* torch.zeros(n)
Zeros(n) == Tensor(<<n>>, "zeros")

\* Parameter(t): the same data, tracked for gradients.
Parameter(t) == [t EXCEPT !.requires_grad = TRUE]

\* ParameterList([Parameter(t) for t in ts])
ParameterList(ts) == [i \in 1..Len(ts) |-> Parameter(ts[i])]

Shapes(ts) == [i \in 1..Len(ts) |-> ts[i].shape]

\* s[:-1]
AllButLast(s) == SubSeq(s, 1, Len(s) - 1)

----------------------------------------------------------------------------
\* The constructor.

AllAttrs == {"size", "weights", "biases", "activation_functions",
             "function_parameters"}

\* assert size_out >= 2
CheckSizeOutLoose(size_out) == size_out >= 1
CheckSizeOut(size_out) == size_out >= 2

\* neurons = [size_in]; neurons.extend(hidden_sizes); neurons.append(size_out)
Neurons(size_in, hidden_sizes, size_out) ==
    <<size_in>> \o hidden_sizes \o <<size_out>>

InitWeightsTransposed(neurons) ==
    [i \in 1..(Len(neurons) - 1) |-> Parameter(Rand(neurons[i + 1], neurons[i]))]
InitWeights(neurons) ==
    [i \in 1..(Len(neurons) - 1) |-> Parameter(Rand(neurons[i], neurons[i + 1]))]

InitBiasesRand(hidden_sizes) ==
    [i \in 1..Len(hidden_sizes) |-> Parameter(Tensor(<<hidden_sizes[i]>>, "rand"))]
InitBiasesDropLast(hidden_sizes) ==
    [i \in 1..(Len(hidden_sizes) - 1) |-> Parameter(Zeros(hidden_sizes[i]))]
InitBiases(hidden_sizes) ==
    [i \in 1..Len(hidden_sizes) |-> Parameter(Zeros(hidden_sizes[i]))]

Result(op, status) ==
    [op |-> op, status |-> status, x |-> <<>>, shape |-> <<>>, iters |-> 0,
     mults |-> <<>>, calls |-> <<>>, final_bias |-> 0, given |-> <<>>]

Construct ==
    /\ state = "new"
    /\ IF ~CheckSizeOut(args.size_out)
       THEN /\ state' = "failed"
            /\ last' = Result("construct", "AssertionError")
            /\ UNCHANGED <<attrs, size, weights, biases, activation_functions,
                           function_parameters>>
       ELSE /\ state' = "ready"
            /\ size' = Len(args.activation_functions)
            /\ weights' = InitWeights(Neurons(args.size_in, args.hidden_sizes,
                                              args.size_out))
            /\ biases' = InitBiases(args.hidden_sizes)
            /\ activation_functions' = args.activation_functions
            /\ function_parameters' = args.function_parameters
            /\ attrs' = AllAttrs
            /\ last' = Result("construct", "ok")
    /\ UNCHANGED <<args, setter_calls>>

----------------------------------------------------------------------------
\* The forward pass.

\* torch.mm(a, b) on shapes: both 2-D, inner sizes equal.
Mm(a, b) ==
    IF Len(a) = 2 /\ Len(b) = 2 /\ a[2] = b[1]
    THEN [ok |-> TRUE, shape |-> <<a[1], b[2]>>]
    ELSE [ok |-> FALSE, shape |-> <<>>]

\* The k-th dimension of shape u when right-aligned in n dimensions.
Dim(u, k, n) == IF k + Len(u) - n >= 1 THEN u[k + Len(u) - n] ELSE 1

\* a + b on shapes: broadcasting, dimensions compared from the right.
Broadcast(s, t) ==
    LET n == Max(Len(s), Len(t))
        fits == \A k \in 1..n :
                    \/ Dim(s, k, n) = Dim(t, k, n)
                    \/ Dim(s, k, n) = 1
                    \/ Dim(t, k, n) = 1
    IN  IF fits
        THEN [ok |-> TRUE,
              shape |-> [k \in 1..n |-> IF Dim(s, k, n) = 1 THEN Dim(t, k, n)
                                                          ELSE Dim(s, k, n)]]
        ELSE [ok |-> FALSE, shape |-> <<>>]

\* activation(t) or activation(t, p.item()): elementwise, shape preserved.
Activation(fn, shape, p) == shape

\* softmax(t, dim=1): normalisation along one axis, shape preserved.
Softmax(shape, dim) == shape

\* self.__weights[:-1] and self.__biases[:-1], the lists the loop zips.
LoopWeights(ws) == AllButLast(ws)
LoopBiasesAll(bs) == bs
LoopBiases(bs) == AllButLast(bs)

\* The number of iterations of zip(a, b, c, d): the shortest list.
ZipLen(a, b, c, d) == Min(Min(Len(a), Len(b)), Min(Len(c), Len(d)))

\* self.__weights[-1] and self.__biases[-1] as positions (0: IndexError).
FirstIndex(l) == IF Len(l) = 0 THEN 0 ELSE 1
LastIndex(l) == Len(l)

\* The loop of forward from iteration i on; acc is the outcome so far.
RECURSIVE ForwardLoop(_, _, _, _, _, _, _)
ForwardLoop(i, n, acc, ws, bs, fs, ps) ==
    IF i > n \/ acc.status # "ok"
    THEN acc
    ELSE LET prod == Mm(acc.shape, ws[i].shape)
             sum == IF prod.ok THEN Broadcast(prod.shape, bs[i].shape) ELSE prod
             mults == Append(acc.mults, i)
         IN  IF ~sum.ok
             THEN [acc EXCEPT !.status = "RuntimeError", !.mults = mults]
             ELSE ForwardLoop(i + 1, n,
                      [acc EXCEPT !.shape = Activation(fs[i], sum.shape, ps[i]),
                                  !.iters = i,
                                  !.mults = mults,
                                  !.calls = Append(acc.calls,
                                                   <<fs[i], IF ps[i] = None
                                                            THEN <<>>
                                                            ELSE <<ps[i]>> >>)],
                      ws, bs, fs, ps)

\* forward(nn_input) with nn_input of shape x: the outcome of the call.
ForwardPass(ws, bs, fs, ps, x) ==
    LET lw == LoopWeights(ws)
        lb == LoopBiases(bs)
        start == [Result("forward", "ok") EXCEPT !.x = x, !.shape = x]
        acc == ForwardLoop(1, ZipLen(lw, lb, fs, ps), start, lw, lb, fs, ps)
        fail(a, err) == [a EXCEPT !.status = err, !.shape = <<>>]
        w == LastIndex(ws)
        b == LastIndex(bs)
    IN  IF acc.status # "ok" THEN fail(acc, acc.status)
        ELSE IF w = 0 THEN fail(acc, "IndexError")
        ELSE LET prod == Mm(acc.shape, ws[w].shape)
                 used == [acc EXCEPT !.mults = Append(acc.mults, w)]
             IN  IF ~prod.ok THEN fail(used, "RuntimeError")
                 ELSE IF b = 0 THEN fail(used, "IndexError")
                 ELSE LET sum == Broadcast(prod.shape, bs[b].shape)
                          added == [used EXCEPT !.final_bias = b]
                      IN  IF ~sum.ok THEN fail(added, "RuntimeError")
                          ELSE [added EXCEPT !.shape = Softmax(sum.shape, 1)]

ForwardDroppingWeights(x) ==
    /\ state = "ready"
    /\ last' = ForwardPass(weights, biases, activation_functions,
                           function_parameters, x)
    /\ weights' = AllButLast(weights)
    /\ UNCHANGED <<state, args, attrs, size, biases, activation_functions,
                   function_parameters, setter_calls>>
Forward(x) ==
    /\ state = "ready"
    /\ last' = ForwardPass(weights, biases, activation_functions,
                           function_parameters, x)
    /\ UNCHANGED <<state, args, attrs, size, weights, biases,
                   activation_functions, function_parameters, setter_calls>>

----------------------------------------------------------------------------
\* The backward pass: a stub that computes the output layer's loss term.

\* it = size - 1; batch_size = x.size()[0];
\* out_layer_loss = (1 / batch_size) * (y_pred - y)
BackwardPass(x, y, y_pred) ==
    IF Len(x) = 0 THEN "IndexError"
    ELSE IF x[1] = 0 THEN "ZeroDivisionError"
    ELSE IF ~Broadcast(y_pred, y).ok THEN "RuntimeError"
    ELSE "ok"

Backward(x, y, y_pred) ==
    /\ state = "ready"
    /\ last' = [Result("backward", BackwardPass(x, y, y_pred)) EXCEPT !.x = x]
    /\ UNCHANGED <<state, args, attrs, size, weights, biases,
                   activation_functions, function_parameters, setter_calls>>

----------------------------------------------------------------------------
\* The setters.

\* The shapes the constructor gives the weight list.
CtorWeightShapes ==
    Shapes(InitWeights(Neurons(args.size_in, args.hidden_sizes, args.size_out)))

SetWeightsValidating(nn_weights) ==
    /\ state = "ready"
    /\ setter_calls < MaxSetterCalls
    /\ setter_calls' = setter_calls + 1
    /\ IF Shapes(nn_weights) = CtorWeightShapes
       THEN /\ weights' = ParameterList(nn_weights)
            /\ last' = [Result("set_weights", "ok") EXCEPT !.given = nn_weights]
       ELSE /\ weights' = weights
            /\ last' = [Result("set_weights", "ValueError")
                            EXCEPT !.given = nn_weights]
    /\ UNCHANGED <<state, args, attrs, size, biases, activation_functions,
                   function_parameters>>
SetWeights(nn_weights) ==
    /\ state = "ready"
    /\ setter_calls < MaxSetterCalls
    /\ setter_calls' = setter_calls + 1
    /\ weights' = ParameterList(nn_weights)
    /\ last' = [Result("set_weights", "ok") EXCEPT !.given = nn_weights]
    /\ UNCHANGED <<state, args, attrs, size, biases, activation_functions,
                   function_parameters>>

SetBiases(nn_biases) ==
    /\ state = "ready"
    /\ setter_calls < MaxSetterCalls
    /\ setter_calls' = setter_calls + 1
    /\ biases' = ParameterList(nn_biases)
    /\ last' = [Result("set_biases", "ok") EXCEPT !.given = nn_biases]
    /\ UNCHANGED <<state, args, attrs, size, weights, activation_functions,
                   function_parameters>>

SetActivationFunctions(nn_functions) ==
    /\ state = "ready"
    /\ setter_calls < MaxSetterCalls
    /\ setter_calls' = setter_calls + 1
    /\ activation_functions' = nn_functions
    /\ last' = [Result("set_activation_functions", "ok")
                    EXCEPT !.given = nn_functions]
    /\ UNCHANGED <<state, args, attrs, size, weights, biases,
                   function_parameters>>

----------------------------------------------------------------------------
\* The calls the model makes.

Seqs(S, n) == UNION {[1..k -> S] : k \in 0..n}

\* Batch sizes of the inputs: empty, single row, several rows.
Batches == {0, 1, 2}

\* A list of k activation functions: relu, sig, relu, ...
ActList(k) == [i \in 1..k |-> IF i % 2 = 1 THEN "relu" ELSE "sig"]

\* The lists of k activation parameters: all absent, or scalar, None, scalar, ...
ParamLists(k) ==
    {[i \in 1..k |-> None], [i \in 1..k |-> IF i % 2 = 1 THEN Scalar ELSE None]}

\* Constructor calls of every kind: list lengths need not agree.
FreshArgs ==
    [size_in : 0..MaxSize,
     hidden_sizes : Seqs(0..MaxSize, MaxHidden),
     activation_functions : {ActList(k) : k \in 0..MaxHidden},
     function_parameters : UNION {ParamLists(k) : k \in 0..MaxHidden},
     size_out : 1..MaxOut]

\* Constructor calls whose lists have one entry per hidden layer.
MatchedArgs ==
    {a \in [size_in : 1..MaxSize,
            hidden_sizes : Seqs(1..MaxSize, SetMaxHidden),
            activation_functions : {ActList(k) : k \in 0..SetMaxHidden},
            function_parameters : {[i \in 1..k |-> None] : k \in 0..SetMaxHidden},
            size_out : 1..2] :
        /\ Len(a.activation_functions) = Len(a.hidden_sizes)
        /\ Len(a.function_parameters) = Len(a.hidden_sizes)}

\* Lists handed to the setters: k tensors of one shape.
WeightLists ==
    {[i \in 1..k |-> Tensor(<<r, c>>, "data")] :
        k \in 0..MaxSetLen, r \in 1..MaxSize, c \in 1..MaxSize}

BiasLists ==
    {[i \in 1..k |-> Tensor(<<n>>, "data")] : k \in 0..MaxSetLen, n \in 1..MaxSize}

FunctionLists == {ActList(k) : k \in 0..MaxSetLen}

Start(a) ==
    /\ state = "new"
    /\ args = a
    /\ attrs = {}
    /\ size = 0
    /\ weights = <<>>
    /\ biases = <<>>
    /\ activation_functions = <<>>
    /\ function_parameters = <<>>
    /\ last = Result("none", "ok")
    /\ setter_calls = 0

----------------------------------------------------------------------------
\* Fresh networks: construction, then forward and backward calls.

InitFresh == \E a \in FreshArgs : Start(a)

NextFresh ==
    \/ Construct
    \/ \E B \in Batches : Forward(<<B, args.size_in>>)
    \/ \E B \in Batches, c \in {args.size_out, args.size_out + 1} :
           Backward(<<B, args.size_in>>, <<B, args.size_out>>, <<B, c>>)

SpecFresh == InitFresh /\ [][NextFresh]_vars

----------------------------------------------------------------------------
\* The whole interface: construction, forward, backward and the setters.

Init == \E a \in MatchedArgs : Start(a)

Next ==
    \/ Construct
    \/ \E B \in Batches : Forward(<<B, args.size_in>>)
    \/ \E B \in Batches, c \in {args.size_out, args.size_out + 1} :
           Backward(<<B, args.size_in>>, <<B, args.size_out>>, <<B, c>>)
    \/ \E l \in WeightLists : SetWeights(l)
    \/ \E l \in BiasLists : SetBiases(l)
    \/ \E l \in FunctionLists : SetActivationFunctions(l)

Spec == Init /\ [][Next]_vars

----------------------------------------------------------------------------
\* Vocabulary of the properties.

\* The number of hidden layers of the constructor call.
H == Len(args.hidden_sizes)

\* n_i of n = [size_in] + hidden_sizes + [size_out], i = 0 .. H + 1.
N(i) == IF i = 0 THEN args.size_in
        ELSE IF i = H + 1 THEN args.size_out
        ELSE args.hidden_sizes[i]

\* The network is as the constructor left it.
Fresh == state = "ready" /\ setter_calls = 0

\* The constructor was given one activation and one parameter per hidden layer.
Matched ==
    /\ Len(args.activation_functions) = H
    /\ Len(args.function_parameters) = H

AllNone == \A i \in 1..Len(args.function_parameters) :
               args.function_parameters[i] = None

\* The last call was forward on a batch of shape (B, size_in).
ForwardOnBatch ==
    /\ last.op = "forward"
    /\ Len(last.x) = 2
    /\ last.x[2] = args.size_in

\* Every layer has at least one neuron and the batch at least one row.
Ordinary ==
    /\ args.size_in >= 1
    /\ \A i \in 1..H : args.hidden_sizes[i] >= 1
    /\ last.x[1] >= 1

LengthInvariant == Len(weights) = Len(biases) + 1

----------------------------------------------------------------------------
\* C1: for every valid construction and every batch of shape (B, size_in),
\* forward returns, without error, a tensor of shape (B, size_out); stated for
\* layers of at least one neuron and batches of at least one row.
C1_ForwardReturnsShape ==
    (Fresh /\ Matched /\ ForwardOnBatch /\ Ordinary)
        => (last.status = "ok" /\ last.shape = <<last.x[1], args.size_out>>)

\* C2: on a freshly constructed network a forward call that returns has run
\* the loop H times, once per hidden layer with that layer's activation and
\* parameter, and has multiplied by each of the H + 1 weight matrices once,
\* in list order; stated for layers of at least one neuron and batches of at
\* least one row.
C2_ForwardSteps ==
    (Fresh /\ Matched /\ ForwardOnBatch /\ Ordinary /\ last.status = "ok")
        => /\ last.iters = H
           /\ last.mults = [i \in 1..(H + 1) |-> i]
           /\ last.calls =
                  [i \in 1..H |->
                      <<args.activation_functions[i],
                        IF args.function_parameters[i] = None
                        THEN <<>> ELSE <<args.function_parameters[i]>> >>]

\* C3 as stated: len(weights) == len(biases) + 1 in every state of a
\* constructed instance.
C3_LengthInvariantAlways == state = "ready" => LengthInvariant

\* C3 amended: len(weights) == len(biases) + 1 holds after construction; it is
\* kept by forward, backward and the activation_functions setter; the weights
\* and biases setters check nothing, and keep it exactly when the list they
\* are given is as long as the list it replaces.
C3_LengthInvariantKept ==
    [][state' = "ready" =>
          /\ last'.op = "construct" => LengthInvariant'
          /\ (/\ last'.op \in {"forward", "backward", "set_activation_functions"}
              /\ LengthInvariant)
                 => LengthInvariant'
          /\ (last'.op = "set_weights" /\ LengthInvariant)
                 => /\ Len(weights') = Len(last'.given)
                    /\ LengthInvariant' <=> (Len(last'.given) = Len(weights))
          /\ (last'.op = "set_biases" /\ LengthInvariant)
                 => /\ Len(biases') = Len(last'.given)
                    /\ LengthInvariant' <=> (Len(last'.given) = Len(biases))]_vars

C3_Witness ==
    /\ state = "ready"
    /\ last.op = "set_weights"
    /\ Len(last.given) = H + 1
    /\ H = 1
    /\ LengthInvariant

\* C4: construction with size_out < 2 fails with a validation error before any
\* list is created; construction with size_out >= 2 passes the check.
C4_SizeOutValidated ==
    state # "new" =>
        /\ (state = "failed") <=> (args.size_out < 2)
        /\ state = "failed" =>
               /\ last.status = "AssertionError"
               /\ attrs = {}
               /\ weights = <<>> /\ biases = <<>>
               /\ activation_functions = <<>> /\ function_parameters = <<>>
        /\ state = "ready" => attrs = AllAttrs

C4_Witness ==
    /\ state = "failed"
    /\ args.size_out = 1
    /\ H = 2

\* C5: after a valid construction the weight list has len(hidden_sizes) + 1
\* matrices and the i-th has shape (n_i, n_{i+1}),
\* n = [size_in] + hidden_sizes + [size_out].
C5_WeightShapes ==
    Fresh =>
        /\ Len(weights) = H + 1
        /\ \A i \in 0..H : weights[i + 1].shape = <<N(i), N(i + 1)>>

C5_Witness ==
    /\ Fresh
    /\ last.op = "construct"
    /\ H = 2
    /\ N(0) # N(1) /\ N(1) # N(2) /\ N(2) # N(3)

\* C6: after a valid construction there is one bias vector per hidden layer and
\* none for the output layer; the i-th has shape (hidden_sizes[i],) and all its
\* entries are zero.
C6_BiasShapes ==
    Fresh =>
        /\ Len(biases) = H
        /\ \A i \in 1..H :
               /\ biases[i].shape = <<args.hidden_sizes[i]>>
               /\ biases[i].fill = "zeros"

C6_Witness ==
    /\ Fresh
    /\ last.op = "construct"
    /\ H = 2
    /\ args.hidden_sizes[1] # args.hidden_sizes[2]

\* C7 as stated: the weights setter, given a list whose shapes are not the
\* ones the constructor made, raises an error and leaves the stored list as
\* it was.
C7_MismatchRejected ==
    [][(/\ state = "ready"
        /\ last'.op = "set_weights"
        /\ Shapes(last'.given) # CtorWeightShapes)
           => (last'.status # "ok" /\ weights' = weights)]_vars

\* C7 amended: the weights setter checks nothing: given a list whose shapes are
\* not the ones the constructor made, it returns normally and the stored list
\* is the given list.
C7_MismatchStored ==
    [][(/\ state = "ready"
        /\ last'.op = "set_weights"
        /\ Shapes(last'.given) # CtorWeightShapes)
           => /\ last'.status = "ok"
              /\ Shapes(weights') = Shapes(last'.given)
              /\ \A i \in 1..Len(weights') :
                     /\ weights'[i].fill = last'.given[i].fill
                     /\ weights'[i].requires_grad]_vars

C7_Witness ==
    /\ state = "ready"
    /\ last.op = "set_weights"
    /\ last.status = "ok"
    /\ Len(last.given) = H + 1
    /\ Shapes(last.given) # CtorWeightShapes
    /\ Shapes(weights) = Shapes(last.given)

\* C8: a forward call, whether it returns or raises, leaves the weight list,
\* the bias list, the activation list and the parameter list as they were.
C8_ForwardKeepsLists ==
    [][last'.op = "forward" => (lists' = lists /\ size' = size)]_vars

C8_Witness ==
    /\ last.op = "forward"
    /\ last.status = "RuntimeError"
    /\ setter_calls = 1
    /\ Len(weights) # H + 1

\* C9 as stated: a network constructed with len(activation_functions) !=
\* len(hidden_sizes) never returns from forward on a (B, size_in) batch; stated
\* for layers of at least one neuron and batches of at least one row.
C9_MismatchAlwaysFails ==
    (Fresh /\ Len(args.activation_functions) # H /\ ForwardOnBatch /\ Ordinary)
        => last.status \in {"IndexError", "RuntimeError"}

\* The number of loop iterations of forward on a fresh network.
K == Min(Max(H - 1, 0),
         Min(Len(args.activation_functions), Len(args.function_parameters)))

\* C9 amended: a mismatch between the activation list and the hidden layers is
\* not rejected at construction, and forward does not always fail on it: the
\* loop stops at the shortest list, after k = min(H - 1, len(activations),
\* len(parameters)) steps, and forward returns a (B, size_out) result exactly
\* when H >= 1, n_k == n_H and n_H is size_out or 1; otherwise it raises an
\* indexing or shape error.
C9_MismatchMaySucceed ==
    (state # "new" /\ Len(args.activation_functions) # H) =>
        /\ (state = "ready") <=> (args.size_out >= 2)
        /\ (Fresh /\ ForwardOnBatch) =>
               /\ last.iters = K
               /\ (last.status = "ok") <=>
                      (/\ H >= 1
                       /\ N(K) = N(H)
                       /\ N(H) = args.size_out \/ N(H) = 1)
               /\ last.status = "ok" =>
                      last.shape = <<last.x[1], args.size_out>>
               /\ last.status # "ok" =>
                      last.status \in {"IndexError", "RuntimeError"}

C9_Witness ==
    /\ Fresh
    /\ Len(args.activation_functions) > H
    /\ ForwardOnBatch
    /\ Ordinary
    /\ last.status = "ok"

\* C10: on a fresh network with one activation per hidden layer, all parameters
\* None, forward on a (B, size_in) batch returns if and only if H >= 1,
\* n_{H-1} == n_H and n_H is size_out or 1; the loop runs H - 1 times, weight
\* matrix W_{H-1} is never multiplied, and the last hidden layer's bias is
\* added to the final product; with H == 0 it fails on biases[-1]; a returned
\* result has shape (B, size_out).
C10_ForwardAsImplemented ==
    (Fresh /\ Matched /\ AllNone /\ ForwardOnBatch) =>
        /\ (last.status = "ok") <=>
               (/\ H >= 1
                /\ N(H - 1) = N(H)
                /\ N(H) = args.size_out \/ N(H) = 1)
        /\ H >= 1 =>
               /\ last.iters = H - 1
               /\ \A j \in 1..Len(last.mults) : last.mults[j] # H
               /\ \A i \in 1..(H - 1) : last.mults[i] = i
        /\ (H >= 1 /\ N(H - 1) = N(H)) =>
               /\ last.mults = [i \in 1..H |-> IF i = H THEN H + 1 ELSE i]
               /\ last.final_bias = H
               /\ biases[last.final_bias].shape = <<N(H)>>
        /\ H = 0 =>
               /\ last.status = "IndexError"
               /\ last.mults = <<1>>
               /\ last.final_bias = 0
        /\ last.status = "ok" => last.shape = <<last.x[1], args.size_out>>

C10_Witness ==
    /\ Fresh /\ Matched /\ AllNone /\ ForwardOnBatch
    /\ H = 2
    /\ last.status = "ok"
    /\ last.x[1] = 2
    /\ N(H) = 1

====
